---- MODULE Spec2Model ----
(***************************************************************************)
(* Model of the notes application: the Notebook component (creation        *)
(* dialog, draft lifecycle, repository mutations over localStorage and the *)
(* react-query cache), the LayoutGrid selection and the NoteCard editor.   *)
(*                                                                         *)
(* Strings are sequences of one-character strings, so trim() is computed.  *)
(* `storage` is the parsed content of localStorage["notes"]; `notes` is    *)
(* the react-query cache data that every render closure reads;             *)
(* `refetchPending` says that invalidateQueries has asked for a refetch    *)
(* whose result is not in the cache yet. The default QueryClient delivers  *)
(* it asynchronously, and not before the browser is online again.          *)
(***************************************************************************)
EXTENDS Integers, Sequences, FiniteSets, TLC

\* ------------------------------------------------------------------ bounds
MaxIds == 2
MaxItemIds == 1
MaxTime == 1
MaxNotes == 3
MaxRawLen == 3

\* --------------------------------------------------------------- constants
COLORS == << "blue", "green", "yellow", "red", "purple", "pink" >>

Null == 0
NoCard == [ id |-> Null ]

\* the value of a missing array element, and what JSON.stringify makes of it
Undefined == [ undefined |-> TRUE ]
JsonNull == [ null |-> TRUE ]

Ids == 1..MaxIds

\* values typed into the inputs
TitleInputs == { <<>>, <<" ">>, <<"a">> }
ContentInputs == { <<>>, <<"c">> }
ColorInputs == { COLORS[1], COLORS[2] }
TagInputs == { <<>>, <<"t">> }
ItemInputs == { <<>>, <<"i">> }
CardTitleInputs == { <<>>, <<"b">> }

\* ------------------------------------------------------------ pure helpers
RECURSIVE TrimStart(_)
TrimStart(s) ==
  IF s = <<>> THEN <<>>
  ELSE IF Head(s) = " " THEN TrimStart(Tail(s)) ELSE s

RECURSIVE TrimEnd(_)
TrimEnd(s) ==
  IF s = <<>> THEN <<>>
  ELSE IF s[Len(s)] = " " THEN TrimEnd(SubSeq(s, 1, Len(s) - 1)) ELSE s

Trim(s) == TrimEnd(TrimStart(s))

Includes(seq, x) == \E i \in 1..Len(seq) : seq[i] = x

NoteIds(coll) == { coll[i].id : i \in 1..Len(coll) }

HasNote(coll, id) == id \in NoteIds(coll)

NoteOf(coll, id) == coll[CHOOSE i \in 1..Len(coll) : coll[i].id = id]

EmptyNote ==
  [ title |-> <<>>, content |-> <<>>, color |-> COLORS[1],
    tags |-> <<>>, items |-> <<>> ]

\* { id, createdAt: new Date(), updatedAt: new Date(), ...fields }: the clock
\* is read twice, t and then u
MakeNote(id, t, u, fields) ==
  [ id |-> id, createdAt |-> t, updatedAt |-> u,
    title |-> fields.title, content |-> fields.content,
    color |-> fields.color, tags |-> fields.tags, items |-> fields.items ]

\* { ...note, ...fields, updatedAt: now }
MergeNote(note, fields, t) ==
  [ note EXCEPT !.title = fields.title, !.content = fields.content,
                !.color = fields.color, !.tags = fields.tags,
                !.items = fields.items, !.updatedAt = t ]

\* mutant: the updated note is moved to the end
ReplaceNoteAtEnd(coll, u) ==
  SelectSeq(coll, LAMBDA n : n.id # u.id) \o << u >>

\* notes.map(n => n.id === u.id ? u : n)
ReplaceNote(coll, u) ==
  [ i \in 1..Len(coll) |-> IF coll[i].id = u.id THEN u ELSE coll[i] ]

\* notes.map(n => n.id === id ? { ...n, ...fields, updatedAt } : n)
MergeInto(coll, id, fields, t) ==
  [ i \in 1..Len(coll) |->
      IF coll[i].id = id THEN MergeNote(coll[i], fields, t) ELSE coll[i] ]

\* notes.filter(n => n.id !== id)
RemoveNote(coll, id) == SelectSeq(coll, LAMBDA n : n.id # id)

\* Array.prototype.splice: a negative start counts from the end, and the
\* start is clamped to [0, length]
RelativeStart(start, len) ==
  IF start < 0 THEN (IF len + start > 0 THEN len + start ELSE 0)
  ELSE IF start < len THEN start ELSE len

\* mutant: the two elements change places
SpliceSwaps(coll, from, to) ==
  LET s == RelativeStart(from, Len(coll))
      p == RelativeStart(to, Len(coll))
  IN  IF s < Len(coll) /\ p < Len(coll)
      THEN [ k \in 1..Len(coll) |->
               IF k = s + 1 THEN coll[p + 1]
               ELSE IF k = p + 1 THEN coll[s + 1]
               ELSE coll[k] ]
      ELSE coll

\* mutant: the insertion index is counted in the array before the removal
SpliceCountsRemoved(coll, from, to) ==
  LET s == RelativeStart(from, Len(coll))
      m == IF s < Len(coll) THEN coll[s + 1] ELSE Undefined
      rest == SubSeq(coll, 1, s) \o SubSeq(coll, s + 2, Len(coll))
      p == RelativeStart(IF from < to THEN to - 1 ELSE to, Len(rest))
  IN  SubSeq(rest, 1, p) \o << m >> \o SubSeq(rest, p + 1, Len(rest))

\* const [m] = a.splice(from, 1); a.splice(to, 0, m)   (indices 0-based);
\* m is undefined when the first splice removes nothing
Splice(coll, from, to) ==
  LET s == RelativeStart(from, Len(coll))
      m == IF s < Len(coll) THEN coll[s + 1] ELSE Undefined
      rest == SubSeq(coll, 1, s) \o SubSeq(coll, s + 2, Len(coll))
      p == RelativeStart(to, Len(rest))
  IN  SubSeq(rest, 1, p) \o << m >> \o SubSeq(rest, p + 1, Len(rest))

\* JSON.parse(JSON.stringify(coll)): an undefined element is written as null
Json(coll) ==
  [ k \in 1..Len(coll) |-> IF coll[k] = Undefined THEN JsonNull ELSE coll[k] ]

\* ------------------------------------------------------ the stored item
\* localStorage.getItem("notes"): null, or the text of the item
NoItem == [ present |-> FALSE, text |-> <<>> ]
Item(text) == [ present |-> TRUE, text |-> text ]

\* JSON values
JsonNumber(digits) == [ json |-> "number", digits |-> digits ]
JsonObject == [ json |-> "object" ]
JsonArray(elems) == [ json |-> "array", elems |-> elems ]

\* JSON.parse over texts of the characters [ ] { } 1: a number, the empty
\* object, the empty array or an array of one value; anything else is a
\* SyntaxError
RECURSIVE JsonParse(_)
JsonParse(text) ==
  LET n == Len(text)
      Throws == [ ok |-> FALSE ]
      Returns(v) == [ ok |-> TRUE, value |-> v ]
  IN  IF n = 0 THEN Throws
      ELSE IF \A k \in 1..n : text[k] = "1" THEN Returns(JsonNumber(text))
      ELSE IF text = << "{", "}" >> THEN Returns(JsonObject)
      ELSE IF n >= 2 /\ text[1] = "[" /\ text[n] = "]"
      THEN IF n = 2 THEN Returns(JsonArray(<<>>))
           ELSE LET inner == JsonParse(SubSeq(text, 2, n - 1))
                IN  IF inner.ok THEN Returns(JsonArray(<< inner.value >>))
                    ELSE Throws
      ELSE Throws

\* queryFn: savedNotes ? JSON.parse(savedNotes) : []
queryFn(item) ==
  IF ~item.present \/ item.text = <<>>
  THEN [ ok |-> TRUE, value |-> JsonArray(<<>>) ]
  ELSE JsonParse(item.text)

\* const { data: notes = [] } = useQuery(...): data stays undefined when the
\* queryFn throws, and the default applies
UseQueryData(item) ==
  IF queryFn(item).ok THEN queryFn(item).value ELSE JsonArray(<<>>)

\* the render reads notes.flatMap(note => note.tags) and every card reads
\* note.tags.length
RenderThrows(data) ==
  \/ data.json # "array"
  \/ \E k \in 1..Len(data.elems) : "tags" \notin DOMAIN data.elems[k]

\* ------------------------------------------------------------------- state
VARIABLES
  storage,        \* localStorage["notes"], parsed
  notes,          \* useQuery data seen by the current render
  refetchPending, \* invalidateQueries called, cache not refreshed yet
  newNote,        \* creation dialog form
  newNoteTimer,   \* useDebounce(newNote, 500): timer pending
  newTag,         \* creation dialog tag input
  newItem,        \* creation dialog checklist input
  isModalOpen,
  draftId,
  discarded,      \* history: draft ids removed by the on-close effect
  selected,       \* LayoutGrid: id of the selected note, Null if none
  editedNote,     \* NoteCard local copy, per mounted card
  debouncedNote,  \* NoteCard useDebounce(editedNote, 500) value
  prevNoteRef,    \* NoteCard prevNoteRef.current
  cardTimer,      \* NoteCard debounce timer pending
  cardNewTag,     \* NoteCard tag input, per mounted card
  nextId,         \* next value uuidv4() returns
  nextItemId,     \* next value crypto.randomUUID() returns
  now,            \* clock read by new Date()
  renderThrew,    \* an exception escaped a render or an effect: React
                  \* unmounted the tree
  selectedColors, \* filter: colors ticked in the filter menu
  selectedTags,   \* filter: tags ticked in the filter menu
  searchQuery     \* filter: text of the search box

vars == << storage, notes, refetchPending, newNote, newNoteTimer, newTag, newItem,
           isModalOpen, draftId, discarded, selected, editedNote, debouncedNote,
           prevNoteRef, cardTimer, cardNewTag, nextId, nextItemId, now,
           renderThrew,
           selectedColors, selectedTags, searchQuery >>

dialogVars ==
  << newNote, newNoteTimer, newTag, newItem, isModalOpen, draftId, discarded >>
cardVars ==
  << selected, editedNote, debouncedNote, prevNoteRef, cardTimer, cardNewTag >>
repoVars == << storage, notes, refetchPending >>
filterVars == << selectedColors, selectedTags, searchQuery >>


\* ------------------------------------------------------------------ filter
\* String.prototype.toLowerCase over the letters of the inputs
ToLowerChar(c) ==
  CASE c = "A" -> "a"
    [] c = "B" -> "b"
    [] c = "C" -> "c"
    [] c = "T" -> "t"
    [] OTHER -> c

ToLowerCase(str) == [ k \in 1..Len(str) |-> ToLowerChar(str[k]) ]

\* String.prototype.includes
StrIncludes(str, part) ==
  \E i \in 0..(Len(str) - Len(part)) : SubSeq(str, i + 1, i + Len(part)) = part

\* mutant: the search compares the texts as they are written
FilterNotesCaseSensitive(coll, colors, tags, query) ==
  LET first(note) ==
        IF Len(colors) = 0 /\ Len(tags) = 0 THEN TRUE
        ELSE /\ Len(colors) = 0 \/ Includes(colors, note.color)
             /\ Len(tags) = 0
                  \/ \E k \in 1..Len(tags) : Includes(note.tags, tags[k])
      second(note) ==
        IF query = <<>> THEN TRUE
        ELSE \/ StrIncludes(note.title, query)
             \/ StrIncludes(note.content, query)
             \/ \E k \in 1..Len(note.tags) : StrIncludes(note.tags[k], query)
  IN  SelectSeq(SelectSeq(coll, first), second)

\* mutant: the matching notes come out in reverse order
FilterNotesReversed(coll, colors, tags, query) ==
  LET first(note) ==
        IF Len(colors) = 0 /\ Len(tags) = 0 THEN TRUE
        ELSE /\ Len(colors) = 0 \/ Includes(colors, note.color)
             /\ Len(tags) = 0
                  \/ \E k \in 1..Len(tags) : Includes(note.tags, tags[k])
      second(note) ==
        IF query = <<>> THEN TRUE
        ELSE \/ StrIncludes(ToLowerCase(note.title), ToLowerCase(query))
             \/ StrIncludes(ToLowerCase(note.content), ToLowerCase(query))
             \/ \E k \in 1..Len(note.tags) :
                  StrIncludes(ToLowerCase(note.tags[k]), ToLowerCase(query))
      kept == SelectSeq(SelectSeq(coll, first), second)
  IN  [ k \in 1..Len(kept) |-> kept[Len(kept) + 1 - k] ]

\* mutant: with criteria set, the first matching note is left out
FilterNotesDropsFirst(coll, colors, tags, query) ==
  LET first(note) ==
        IF Len(colors) = 0 /\ Len(tags) = 0 THEN TRUE
        ELSE /\ Len(colors) = 0 \/ Includes(colors, note.color)
             /\ Len(tags) = 0
                  \/ \E k \in 1..Len(tags) : Includes(note.tags, tags[k])
      second(note) ==
        IF query = <<>> THEN TRUE
        ELSE \/ StrIncludes(ToLowerCase(note.title), ToLowerCase(query))
             \/ StrIncludes(ToLowerCase(note.content), ToLowerCase(query))
             \/ \E k \in 1..Len(note.tags) :
                  StrIncludes(ToLowerCase(note.tags[k]), ToLowerCase(query))
      kept == SelectSeq(SelectSeq(coll, first), second)
  IN  IF (Len(colors) = 0 /\ Len(tags) = 0 /\ query = <<>>) \/ kept = <<>>
      THEN kept ELSE Tail(kept)

\* notes.filter(colors and tags).filter(search)
FilterNotes(coll, colors, tags, query) ==
  LET first(note) ==
        IF Len(colors) = 0 /\ Len(tags) = 0 THEN TRUE
        ELSE /\ Len(colors) = 0 \/ Includes(colors, note.color)
             /\ Len(tags) = 0
                  \/ \E k \in 1..Len(tags) : Includes(note.tags, tags[k])
      second(note) ==
        IF query = <<>> THEN TRUE
        ELSE \/ StrIncludes(ToLowerCase(note.title), ToLowerCase(query))
             \/ StrIncludes(ToLowerCase(note.content), ToLowerCase(query))
             \/ \E k \in 1..Len(note.tags) :
                  StrIncludes(ToLowerCase(note.tags[k]), ToLowerCase(query))
  IN  SelectSeq(SelectSeq(coll, first), second)

\* the list handed to LayoutGrid by the current render
filteredNotes == FilterNotes(notes, selectedColors, selectedTags, searchQuery)

\* the tags offered by the filter menu
allTags == UNION { { notes[k].tags[i] : i \in 1..Len(notes[k].tags) } :
                   k \in 1..Len(notes) }

\* ------------------------------------------------------------- fragments
\* mutant: a change of the value leaves the timer as it is
useDebounceKeepsTimer(pending) == pending

\* useDebounce(value, 500), the value changed: the timer that is running is
\* cancelled and a new one is started; the result is whether a timer is
\* pending afterwards
useDebounceOnChange(pending) == TRUE

\* queryClient.invalidateQueries({ queryKey: ["notes"] })
\* mutant: a write that leaves the query as it is
InvalidateNothing == refetchPending' = refetchPending

Invalidate == refetchPending' = TRUE

\* mutant: the form keeps its fields when the dialog closes
ResetFormKeepsFields == UNCHANGED << newNote, newNoteTimer, newTag, newItem >>

\* reset-form effect, deps [isModalOpen], body when the dialog is closed
ResetForm ==
  /\ newNote' = EmptyNote
  /\ newNoteTimer' = useDebounceOnChange(newNoteTimer)
  /\ newTag' = <<>>
  /\ newItem' = <<>>

\* NoteCard mount / unmount and the [note] effect after a render that maps
\* the cards of coll (filteredNotes.map in LayoutGrid)
CardsAfter(coll) ==
  LET mounted(id) == editedNote[id] # NoCard
      changed(id) == mounted(id) /\ NoteOf(coll, id) # prevNoteRef[id]
  IN
  /\ editedNote' = [ id \in DOMAIN editedNote |->
       IF ~HasNote(coll, id) THEN NoCard
       ELSE IF ~mounted(id) \/ changed(id) THEN NoteOf(coll, id)
       ELSE editedNote[id] ]
  /\ prevNoteRef' = [ id \in DOMAIN editedNote |->
       IF ~HasNote(coll, id) THEN NoCard
       ELSE IF ~mounted(id) \/ changed(id) THEN NoteOf(coll, id)
       ELSE prevNoteRef[id] ]
  /\ debouncedNote' = [ id \in DOMAIN editedNote |->
       IF ~HasNote(coll, id) THEN NoCard
       ELSE IF ~mounted(id) THEN NoteOf(coll, id)
       ELSE debouncedNote[id] ]
  /\ cardTimer' = [ id \in DOMAIN editedNote |->
       IF ~HasNote(coll, id) \/ ~mounted(id) THEN FALSE
       ELSE IF changed(id) THEN useDebounceOnChange(cardTimer[id])
       ELSE cardTimer[id] ]
  /\ cardNewTag' = [ id \in DOMAIN editedNote |->
       IF ~HasNote(coll, id) \/ ~mounted(id) THEN <<>>
       ELSE cardNewTag[id] ]

\* what the second new Date() of one handler can return: the clock may have
\* moved on since the first
SecondRead == { u \in { now, now + 1 } : u <= MaxTime }

\* --------------------------------------------------------- creation dialog
OpenDialog ==
  /\ ~renderThrew
  /\ ~isModalOpen
  /\ isModalOpen' = TRUE
  \* draft effect runs on the change of isModalOpen: the form was reset
  \* when the dialog closed, so its title guard fails
  /\ Trim(newNote.title) = <<>>
  /\ UNCHANGED << newNote, newNoteTimer, newTag, newItem, draftId, discarded >>
  /\ UNCHANGED << repoVars, cardVars, nextId, nextItemId, now, renderThrew >>
  /\ UNCHANGED filterVars

EditForm(fields) ==
  /\ ~renderThrew
  /\ isModalOpen
  /\ newNote' = fields
  /\ newNoteTimer' = useDebounceOnChange(newNoteTimer)
  /\ UNCHANGED << isModalOpen, draftId, discarded >>
  /\ UNCHANGED << repoVars, cardVars, nextId, now, renderThrew >>
  /\ UNCHANGED filterVars

SetTitle(t) ==
  /\ EditForm([newNote EXCEPT !.title = t])
  /\ UNCHANGED << newTag, newItem, nextItemId >>

SetContent(c) ==
  /\ EditForm([newNote EXCEPT !.content = c])
  /\ UNCHANGED << newTag, newItem, nextItemId >>

SetColor(c) ==
  /\ EditForm([newNote EXCEPT !.color = c])
  /\ UNCHANGED << newTag, newItem, nextItemId >>

SetNewTag(t) ==
  /\ ~renderThrew
  /\ isModalOpen
  /\ newTag' = t
  /\ UNCHANGED << newNote, newNoteTimer, newItem, isModalOpen, draftId, discarded >>
  /\ UNCHANGED << repoVars, cardVars, nextId, nextItemId, now, renderThrew >>
  /\ UNCHANGED filterVars

handleAddTag ==
  /\ Trim(newTag) # <<>>
  /\ ~Includes(newNote.tags, Trim(newTag))
  /\ EditForm([newNote EXCEPT !.tags = Append(@, Trim(newTag))])
  /\ newTag' = <<>>
  /\ UNCHANGED << newItem, nextItemId >>

handleRemoveTag(tagToRemove) ==
  /\ Includes(newNote.tags, tagToRemove)
  /\ EditForm([newNote EXCEPT
       !.tags = SelectSeq(@, LAMBDA tag : tag # tagToRemove)])
  /\ UNCHANGED << newTag, newItem, nextItemId >>

SetNewItem(t) ==
  /\ ~renderThrew
  /\ isModalOpen
  /\ newItem' = t
  /\ UNCHANGED << newNote, newNoteTimer, newTag, isModalOpen, draftId, discarded >>
  /\ UNCHANGED << repoVars, cardVars, nextId, nextItemId, now, renderThrew >>
  /\ UNCHANGED filterVars

handleAddItem ==
  /\ Trim(newItem) # <<>>
  /\ nextItemId <= MaxItemIds
  /\ EditForm([newNote EXCEPT !.items =
       Append(@, [ id |-> nextItemId, text |-> Trim(newItem),
                   checked |-> FALSE ])])
  /\ nextItemId' = nextItemId + 1
  /\ newItem' = <<>>
  /\ UNCHANGED newTag

handleRemoveItem(itemId) ==
  /\ \E i \in 1..Len(newNote.items) : newNote.items[i].id = itemId
  /\ EditForm([newNote EXCEPT
       !.items = SelectSeq(@, LAMBDA item : item.id # itemId)])
  /\ UNCHANGED << newTag, newItem, nextItemId >>

handleToggleItem(itemId) ==
  /\ \E i \in 1..Len(newNote.items) : newNote.items[i].id = itemId
  /\ EditForm([newNote EXCEPT !.items =
       [ i \in 1..Len(@) |->
           IF @[i].id = itemId THEN [ @[i] EXCEPT !.checked = ~@ ]
           ELSE @[i] ]])
  /\ UNCHANGED << newTag, newItem, nextItemId >>

\* mutant: the draft is created without the test of the title
DraftCreateNoTitleGuard(u) ==
  /\ ~renderThrew
  /\ newNoteTimer
  /\ newNoteTimer' = FALSE
  /\ isModalOpen
  /\ draftId = Null
  /\ nextId <= MaxIds
  /\ draftId' = nextId
  /\ nextId' = nextId + 1
  /\ storage' = Append(notes, MakeNote(nextId, now, u, newNote))
  /\ now' = u
  /\ Invalidate
  /\ UNCHANGED << notes, newNote, newTag, newItem, isModalOpen, discarded >>
  /\ UNCHANGED << cardVars, nextItemId, renderThrew >>
  /\ UNCHANGED filterVars

\* useDebounce timer fires, debouncedNewNote changes and the draft effect
\* runs: no draft yet, so the draft is created
DraftCreate(u) ==
  /\ ~renderThrew
  /\ newNoteTimer
  /\ newNoteTimer' = FALSE
  /\ isModalOpen /\ Trim(newNote.title) # <<>>
  /\ draftId = Null
  /\ nextId <= MaxIds
  /\ draftId' = nextId
  /\ nextId' = nextId + 1
  /\ storage' = Append(notes, MakeNote(nextId, now, u, newNote))
  /\ now' = u
  /\ Invalidate
  /\ UNCHANGED << notes, newNote, newTag, newItem, isModalOpen, discarded >>
  /\ UNCHANGED << cardVars, nextItemId, renderThrew >>
  /\ UNCHANGED filterVars

\* same, with a draft id: the draft is updated
DraftUpdate ==
  /\ ~renderThrew
  /\ newNoteTimer
  /\ newNoteTimer' = FALSE
  /\ isModalOpen /\ Trim(newNote.title) # <<>>
  /\ draftId # Null
  /\ storage' = MergeInto(notes, draftId, newNote, now)
  /\ Invalidate
  /\ UNCHANGED << notes, newNote, newTag, newItem, isModalOpen, draftId, discarded >>
  /\ UNCHANGED << cardVars, nextId, nextItemId, now, renderThrew >>
  /\ UNCHANGED filterVars

\* same, the guard of the draft effect fails
DraftSkip ==
  /\ ~renderThrew
  /\ newNoteTimer
  /\ newNoteTimer' = FALSE
  /\ ~(isModalOpen /\ Trim(newNote.title) # <<>>)
  /\ UNCHANGED << newNote, newTag, newItem, isModalOpen, draftId, discarded >>
  /\ UNCHANGED << repoVars, cardVars, nextId, nextItemId, now, renderThrew >>
  /\ UNCHANGED filterVars

DebounceFire == (\E u \in SecondRead : DraftCreate(u)) \/ DraftUpdate \/ DraftSkip

\* mutant: the on-close effect clears the draft id and leaves the row
CloseCleanupKeepsRow ==
  IF draftId # Null
  THEN /\ storage' = notes
       /\ draftId' = Null
       /\ discarded' = discarded \cup { draftId }
       /\ Invalidate
  ELSE UNCHANGED << storage, draftId, discarded, refetchPending >>

\* mutant: the on-close effect runs only while the title is non-empty
CloseCleanupTitleGuard ==
  IF draftId # Null /\ Trim(newNote.title) # <<>>
  THEN /\ storage' = RemoveNote(notes, draftId)
       /\ draftId' = Null
       /\ discarded' = discarded \cup { draftId }
       /\ Invalidate
  ELSE UNCHANGED << storage, draftId, discarded, refetchPending >>

\* on-close effect, deps [isModalOpen]
CloseCleanup ==
  IF draftId # Null
  THEN /\ storage' = RemoveNote(notes, draftId)
       /\ draftId' = Null
       /\ discarded' = discarded \cup { draftId }
       /\ Invalidate
  ELSE UNCHANGED << storage, draftId, discarded, refetchPending >>

\* Dialog onOpenChange(false)
CloseDialog ==
  /\ ~renderThrew
  /\ isModalOpen
  /\ isModalOpen' = FALSE
  /\ ResetForm
  /\ CloseCleanup
  /\ UNCHANGED << notes, cardVars, nextId, nextItemId, now, renderThrew >>
  /\ UNCHANGED filterVars

\* handleSave, title non-empty and a draft id: the draft becomes the note
SavePromote ==
  /\ ~renderThrew
  /\ isModalOpen
  /\ Trim(newNote.title) # <<>>
  /\ draftId # Null
  /\ storage' = MergeInto(notes, draftId, newNote, now)
  /\ draftId' = Null
  /\ isModalOpen' = FALSE
  /\ Invalidate
  /\ ResetForm
  /\ UNCHANGED << notes, discarded, cardVars, nextId, nextItemId, now, renderThrew >>
  /\ UNCHANGED filterVars

\* mutant: createNote gives every note the same id
SaveCreateSameId(u) ==
  /\ ~renderThrew
  /\ isModalOpen
  /\ Trim(newNote.title) # <<>>
  /\ draftId = Null
  /\ nextId <= MaxIds
  /\ storage' = Append(notes, MakeNote(1, now, u, newNote))
  /\ now' = u
  /\ nextId' = nextId + 1
  /\ Invalidate
  /\ isModalOpen' = FALSE
  /\ ResetForm
  /\ UNCHANGED << notes, draftId, discarded, cardVars, nextItemId, renderThrew >>
  /\ UNCHANGED filterVars

\* handleSave, title non-empty and no draft id: createNote.mutate(newNote)
SaveCreate(u) ==
  /\ ~renderThrew
  /\ isModalOpen
  /\ Trim(newNote.title) # <<>>
  /\ draftId = Null
  /\ nextId <= MaxIds
  /\ storage' = Append(notes, MakeNote(nextId, now, u, newNote))
  /\ now' = u
  /\ nextId' = nextId + 1
  /\ Invalidate
  /\ isModalOpen' = FALSE
  /\ ResetForm
  /\ UNCHANGED << notes, draftId, discarded, cardVars, nextItemId, renderThrew >>
  /\ UNCHANGED filterVars

\* handleSave, title empty: the dialog is closed
SaveCancel ==
  /\ ~renderThrew
  /\ isModalOpen
  /\ Trim(newNote.title) = <<>>
  /\ isModalOpen' = FALSE
  /\ ResetForm
  /\ CloseCleanup
  /\ UNCHANGED << notes, cardVars, nextId, nextItemId, now, renderThrew >>
  /\ UNCHANGED filterVars

handleSave == SavePromote \/ (\E u \in SecondRead : SaveCreate(u)) \/ SaveCancel

\* ------------------------------------------------- layout grid, note cards
\* auto-save effect of the card of `id`, deps [debouncedNote, note.id, selected?.id]
AutoSave(id, sel, deb) ==
  IF sel = id /\ HasNote(notes, id) /\ deb # NoteOf(notes, id)
  THEN /\ storage' = ReplaceNote(notes, [ deb EXCEPT !.updatedAt = now ])
       /\ Invalidate
  ELSE UNCHANGED << storage, refetchPending >>

handleClick(id) ==
  /\ ~renderThrew
  /\ ~isModalOpen
  /\ selected = Null
  /\ HasNote(filteredNotes, id)
  /\ selected' = id
  /\ AutoSave(id, id, debouncedNote[id])
  /\ UNCHANGED << notes, editedNote, debouncedNote, prevNoteRef, cardTimer >>
  /\ UNCHANGED cardNewTag
  /\ UNCHANGED << dialogVars, nextId, nextItemId, now, renderThrew >>
  /\ UNCHANGED filterVars

\* Done button, back arrow (setSelected(null)) and handleOutsideClick
Deselect ==
  /\ ~renderThrew
  /\ ~isModalOpen
  /\ selected # Null
  /\ selected' = Null
  /\ UNCHANGED << repoVars, editedNote, debouncedNote, prevNoteRef, cardTimer >>
  /\ UNCHANGED cardNewTag
  /\ UNCHANGED << dialogVars, nextId, nextItemId, now, renderThrew >>
  /\ UNCHANGED filterVars

SetCardTitle(t) ==
  /\ ~renderThrew
  /\ ~isModalOpen
  /\ selected # Null
  /\ HasNote(filteredNotes, selected)
  /\ editedNote' = [ editedNote EXCEPT ![selected].title = t ]
  /\ cardTimer' = [ cardTimer EXCEPT
       ![selected] = useDebounceOnChange(cardTimer[selected]) ]
  /\ UNCHANGED << repoVars, selected, debouncedNote, prevNoteRef, cardNewTag >>
  /\ UNCHANGED << dialogVars, nextId, nextItemId, now, renderThrew >>
  /\ UNCHANGED filterVars

\* tag input of the selected card
SetCardNewTag(t) ==
  /\ ~renderThrew
  /\ ~isModalOpen
  /\ selected # Null
  /\ HasNote(filteredNotes, selected)
  /\ cardNewTag' = [ cardNewTag EXCEPT ![selected] = t ]
  /\ UNCHANGED << repoVars, selected, editedNote, debouncedNote, prevNoteRef >>
  /\ UNCHANGED << cardTimer, dialogVars, nextId, nextItemId, now, renderThrew >>
  /\ UNCHANGED filterVars

\* setEditedNote of the selected card
EditCard(fields) ==
  /\ ~renderThrew
  /\ ~isModalOpen
  /\ selected # Null
  /\ HasNote(filteredNotes, selected)
  /\ editedNote' = [ editedNote EXCEPT ![selected] = fields ]
  /\ cardTimer' = [ cardTimer EXCEPT
       ![selected] = useDebounceOnChange(cardTimer[selected]) ]
  /\ UNCHANGED << repoVars, selected, debouncedNote, prevNoteRef >>
  /\ UNCHANGED << dialogVars, nextId, nextItemId, now, renderThrew >>
  /\ UNCHANGED filterVars

\* mutant: the card adds the tag without looking for it in the tags
NoteCard_handleAddTagUnchecked ==
  /\ selected # Null
  /\ Trim(cardNewTag[selected]) # <<>>
  /\ EditCard([ editedNote[selected] EXCEPT
       !.tags = Append(@, Trim(cardNewTag[selected])) ])
  /\ cardNewTag' = [ cardNewTag EXCEPT ![selected] = <<>> ]

\* NoteCard handleAddTag
NoteCard_handleAddTag ==
  /\ selected # Null
  /\ Trim(cardNewTag[selected]) # <<>>
  /\ ~Includes(editedNote[selected].tags, Trim(cardNewTag[selected]))
  /\ EditCard([ editedNote[selected] EXCEPT
       !.tags = Append(@, Trim(cardNewTag[selected])) ])
  /\ cardNewTag' = [ cardNewTag EXCEPT ![selected] = <<>> ]

\* NoteCard handleRemoveTag, the X of a tag shown by the card
NoteCard_handleRemoveTag(tagToRemove) ==
  /\ selected # Null
  /\ HasNote(filteredNotes, selected)
  /\ Includes(editedNote[selected].tags, tagToRemove)
  /\ EditCard([ editedNote[selected] EXCEPT
       !.tags = SelectSeq(@, LAMBDA tag : tag # tagToRemove) ])
  /\ UNCHANGED cardNewTag

CardDebounceFire(id) ==
  /\ ~renderThrew
  /\ cardTimer[id]
  /\ cardTimer' = [ cardTimer EXCEPT ![id] = FALSE ]
  /\ debouncedNote' = [ debouncedNote EXCEPT ![id] = editedNote[id] ]
  /\ AutoSave(id, selected, editedNote[id])
  /\ UNCHANGED << notes, selected, editedNote, prevNoteRef, cardNewTag >>
  /\ UNCHANGED << dialogVars, nextId, nextItemId, now, renderThrew >>
  /\ UNCHANGED filterVars

\* trash icon of an unselected card: deleteNote.mutate(id)
DeleteCard(id) ==
  /\ ~renderThrew
  /\ ~isModalOpen
  /\ HasNote(filteredNotes, id)
  /\ selected # id
  /\ storage' = RemoveNote(notes, id)
  /\ Invalidate
  /\ UNCHANGED << notes, cardVars, dialogVars, nextId, nextItemId, now, renderThrew >>
  /\ UNCHANGED filterVars

\* moveNote.mutate({fromIndex, toIndex}); onSuccess setQueryData
moveNote(fromIndex, toIndex) ==
  /\ ~renderThrew
  /\ storage' = Json(Splice(notes, fromIndex, toIndex))
  /\ notes' = Splice(notes, fromIndex, toIndex)
  /\ UNCHANGED << refetchPending, cardVars, dialogVars >>
  /\ UNCHANGED << nextId, nextItemId, now, renderThrew >>
  /\ UNCHANGED filterVars

\* drop hover of the card at toIndex while the card of fromIndex is dragged;
\* the indices are those of the cards in filteredNotes
HoverMove(fromIndex, toIndex) ==
  /\ ~isModalOpen
  /\ fromIndex # toIndex
  /\ fromIndex < Len(filteredNotes) /\ toIndex < Len(filteredNotes)
  /\ moveNote(fromIndex, toIndex)

\* --------------------------------------------------------- filter controls
handleColorToggle(color) ==
  /\ ~renderThrew
  /\ ~isModalOpen
  /\ selectedColors' =
       IF Includes(selectedColors, color)
       THEN SelectSeq(selectedColors, LAMBDA c : c # color)
       ELSE Append(selectedColors, color)
  /\ UNCHANGED << selectedTags, searchQuery >>
  /\ CardsAfter(FilterNotes(notes, selectedColors', selectedTags', searchQuery'))
  /\ UNCHANGED << repoVars, dialogVars, selected >>
  /\ UNCHANGED << nextId, nextItemId, now, renderThrew >>

handleTagToggle(tag) ==
  /\ ~renderThrew
  /\ ~isModalOpen
  /\ tag \in allTags
  /\ selectedTags' =
       IF Includes(selectedTags, tag)
       THEN SelectSeq(selectedTags, LAMBDA t : t # tag)
       ELSE Append(selectedTags, tag)
  /\ UNCHANGED << selectedColors, searchQuery >>
  /\ CardsAfter(FilterNotes(notes, selectedColors', selectedTags', searchQuery'))
  /\ UNCHANGED << repoVars, dialogVars, selected >>
  /\ UNCHANGED << nextId, nextItemId, now, renderThrew >>

SetSearchQuery(query) ==
  /\ ~renderThrew
  /\ ~isModalOpen
  /\ searchQuery' = query
  /\ UNCHANGED << selectedColors, selectedTags >>
  /\ CardsAfter(FilterNotes(notes, selectedColors', selectedTags', searchQuery'))
  /\ UNCHANGED << repoVars, dialogVars, selected >>
  /\ UNCHANGED << nextId, nextItemId, now, renderThrew >>

\* ------------------------------------------------------------- environment
\* the refetch asked for by invalidateQueries runs the queryFn and fills the cache
RefetchLand ==
  /\ ~renderThrew
  /\ refetchPending
  /\ notes' = storage
  /\ refetchPending' = FALSE
  /\ CardsAfter(FilterNotes(notes', selectedColors, selectedTags, searchQuery))
  /\ UNCHANGED << storage, selected, dialogVars, nextId, nextItemId, now, renderThrew >>
  /\ UNCHANGED filterVars

Tick ==
  /\ ~renderThrew
  /\ now < MaxTime
  /\ now' = now + 1
  /\ UNCHANGED << repoVars, dialogVars, cardVars, nextId, nextItemId, renderThrew >>
  /\ UNCHANGED filterVars

\* ----------------------------------------------------------- specification
\* the mounted application over a stored collection, first load delivered
\* and the debounce timers of the mount settled
InitOver(ids, coll) ==
  /\ storage = coll
  /\ notes = coll
  /\ refetchPending = FALSE
  /\ newNote = EmptyNote
  /\ newNoteTimer = FALSE
  /\ newTag = <<>>
  /\ newItem = <<>>
  /\ isModalOpen = FALSE
  /\ draftId = Null
  /\ discarded = {}
  /\ selected = Null
  /\ editedNote =
       [ id \in ids |-> IF HasNote(coll, id) THEN NoteOf(coll, id) ELSE NoCard ]
  /\ debouncedNote = editedNote
  /\ prevNoteRef = editedNote
  /\ cardTimer = [ id \in ids |-> FALSE ]
  /\ cardNewTag = [ id \in ids |-> <<>> ]
  /\ nextId = Len(coll) + 1
  /\ nextItemId = 1
  /\ now = 0
  /\ renderThrew = FALSE
  /\ selectedColors = <<>>
  /\ selectedTags = <<>>
  /\ searchQuery = <<>>

InitWith(coll) == InitOver(Ids, coll)

Init == InitWith(<<>>)

\* creation dialog with title and content, trash icon, drag reorder, refetch;
\* the clock stands still in these behaviours
Next ==
  \/ OpenDialog
  \/ CloseDialog
  \/ \E t \in TitleInputs : SetTitle(t)
  \/ \E c \in ContentInputs : SetContent(c)
  \/ DraftCreate(now)
  \/ DraftUpdate
  \/ DraftSkip
  \/ SavePromote
  \/ SaveCreate(now)
  \/ SaveCancel
  \/ \E id \in Ids : DeleteCard(id)
  \/ \E f \in 0..(MaxIds - 1), t \in 0..(MaxIds - 1) : HoverMove(f, t)
  \/ RefetchLand

Spec == Init /\ [][Next]_vars

\* the same application with a search box; every invalidated query is
\* refetched: the query function reads localStorage and resolves
SyncQueries == { <<>>, << "c" >> }

NextSync == Next \/ \E q \in SyncQueries : SetSearchQuery(q)

SpecSync == Init /\ [][NextSync]_vars /\ WF_vars(RefetchLand)

\* card editor over a stored collection of two notes
SeedNotes ==
  << MakeNote(1, 0, 0, [ EmptyNote EXCEPT !.title = <<"a">> ]),
     MakeNote(2, 0, 0, [ EmptyNote EXCEPT !.title = <<"a">>, !.content = <<"c">> ]) >>

InitCard == InitWith(SeedNotes)

NextCard ==
  \/ \E id \in Ids : handleClick(id)
  \/ Deselect
  \/ \E t \in CardTitleInputs : SetCardTitle(t)
  \/ \E id \in Ids : CardDebounceFire(id)
  \/ \E id \in Ids : DeleteCard(id)
  \/ \E f \in 0..(MaxIds - 1), t \in 0..(MaxIds - 1) : HoverMove(f, t)
  \/ RefetchLand
  \/ Tick

SpecCard == InitCard /\ [][NextCard]_vars

\* creation dialog over one stored note, in sessions whose title is left
\* empty or blank: content, color, tags and checklist of the form
BlankTitleInputs == { t \in TitleInputs : Trim(t) = <<>> }

InitForm == InitWith(SubSeq(SeedNotes, 1, 1))

NextForm ==
  \/ OpenDialog
  \/ CloseDialog
  \/ \E t \in BlankTitleInputs : SetTitle(t)
  \/ \E c \in ContentInputs : SetContent(c)
  \/ \E c \in ColorInputs : SetColor(c)
  \/ \E t \in TagInputs : SetNewTag(t)
  \/ handleAddTag
  \/ \E t \in TagInputs : handleRemoveTag(t)
  \/ \E t \in ItemInputs : SetNewItem(t)
  \/ handleAddItem
  \/ \E i \in 1..MaxItemIds : handleRemoveItem(i)
  \/ \E i \in 1..MaxItemIds : handleToggleItem(i)
  \/ DraftSkip
  \/ SaveCancel

SpecForm == InitForm /\ [][NextForm]_vars

\* creation dialog over one stored note while the clock runs
InitCreate == InitWith(SubSeq(SeedNotes, 1, 1))

NextCreate ==
  \/ OpenDialog
  \/ CloseDialog
  \/ \E t \in TitleInputs : SetTitle(t)
  \/ \E c \in ContentInputs : SetContent(c)
  \/ \E u \in SecondRead : DraftCreate(u)
  \/ DraftUpdate
  \/ DraftSkip
  \/ SavePromote
  \/ \E u \in SecondRead : SaveCreate(u)
  \/ SaveCancel
  \/ RefetchLand
  \/ Tick

SpecCreate == InitCreate /\ [][NextCreate]_vars

\* reorder applied to stored collections of up to MaxNotes notes, with
\* indices inside and outside [0, length)
SeedNote(id) == MakeNote(id, 0, 0, [ EmptyNote EXCEPT !.title = <<"a">> ])

\* the collections of notes 1..MaxNotes kept in the order of creation
MoveInputs ==
  { [ k \in 1..Len(ids) |-> SeedNote(ids[k]) ] :
      ids \in { q \in UNION { [ 1..n -> 1..MaxNotes ] : n \in 0..MaxNotes } :
                  \A i, j \in DOMAIN q : i < j => q[i] < q[j] } }

MoveIndices == (0 - 1)..MaxNotes

InitMove == \E coll \in MoveInputs : InitOver(1..MaxNotes, coll)

NextMove ==
  \E f \in MoveIndices, t \in MoveIndices :
    /\ Len(notes) <= MaxNotes
    /\ moveNote(f, t)

SpecMove == InitMove /\ [][NextMove]_vars

\* first load of the application over an item of localStorage that the
\* application did not write: `storage` holds the item as stored
RawChars == { "[", "]", "{", "}", "1" }

RawInputs ==
  { NoItem } \cup
  { Item(text) : text \in UNION { [ 1..n -> RawChars ] : n \in 0..MaxRawLen } }

\* the first fetch delivers its data and the component renders it
QueryLoad ==
  /\ ~renderThrew
  /\ refetchPending
  /\ refetchPending' = FALSE
  /\ notes' = IF UseQueryData(storage).json = "array"
              THEN UseQueryData(storage).elems ELSE notes
  /\ renderThrew' = RenderThrows(UseQueryData(storage))
  /\ UNCHANGED << storage, dialogVars, cardVars, nextId, nextItemId, now >>
  /\ UNCHANGED filterVars

InitLoad ==
  \E item \in RawInputs :
    /\ storage = item
    /\ notes = <<>>
    /\ refetchPending = TRUE
    /\ newNote = EmptyNote
    /\ newNoteTimer = FALSE
    /\ newTag = <<>>
    /\ newItem = <<>>
    /\ isModalOpen = FALSE
    /\ draftId = Null
    /\ discarded = {}
    /\ selected = Null
    /\ editedNote = [ id \in Ids |-> NoCard ]
    /\ debouncedNote = editedNote
    /\ prevNoteRef = editedNote
    /\ cardTimer = [ id \in Ids |-> FALSE ]
    /\ cardNewTag = [ id \in Ids |-> <<>> ]
    /\ nextId = 1
    /\ nextItemId = 1
    /\ now = 0
    /\ renderThrew = FALSE
    /\ selectedColors = <<>>
    /\ selectedTags = <<>>
    /\ searchQuery = <<>>

NextLoad == QueryLoad

SpecLoad == InitLoad /\ [][NextLoad]_vars

\* localStorage.setItem throws (quota exceeded, storage disabled)
\* in the draft effect: the exception escapes the effect and the tree is
\* unmounted, the state of its components is gone with it
DraftEffectThrows ==
  /\ ~renderThrew
  /\ newNoteTimer
  /\ newNoteTimer' = FALSE
  /\ isModalOpen /\ Trim(newNote.title) # <<>>
  /\ renderThrew' = TRUE
  /\ UNCHANGED << repoVars, cardVars, nextId, nextItemId, now >>
  /\ UNCHANGED << newNote, newTag, newItem, isModalOpen, draftId, discarded >>
  /\ UNCHANGED filterVars

\* in the on-close effect, after the dialog was closed with a draft id
CloseCleanupThrows ==
  /\ ~renderThrew
  /\ isModalOpen
  /\ draftId # Null
  /\ isModalOpen' = FALSE
  /\ ResetForm
  /\ renderThrew' = TRUE
  /\ UNCHANGED << repoVars, cardVars, draftId, discarded, nextId, nextItemId, now >>
  /\ UNCHANGED filterVars

\* in handleSave with a draft id: the exception leaves the event handler
\* before setDraftId and setIsModalOpen
SavePromoteThrows ==
  /\ ~renderThrew
  /\ isModalOpen
  /\ Trim(newNote.title) # <<>>
  /\ draftId # Null
  /\ UNCHANGED vars

\* in createNote.mutationFn called by handleSave: the mutation is rejected
\* and onSuccess does not run
SaveCreateThrows ==
  /\ ~renderThrew
  /\ isModalOpen
  /\ Trim(newNote.title) # <<>>
  /\ draftId = Null
  /\ nextId <= MaxIds
  /\ nextId' = nextId + 1
  /\ UNCHANGED << repoVars, dialogVars, cardVars, nextItemId, now, renderThrew >>
  /\ UNCHANGED filterVars

\* in deleteNote.mutationFn: the mutation is rejected
DeleteThrows(id) ==
  /\ ~renderThrew
  /\ ~isModalOpen
  /\ HasNote(filteredNotes, id)
  /\ selected # id
  /\ UNCHANGED vars

\* creation dialog and trash icon over one stored note, each write of
\* localStorage succeeding or throwing
InitQuota == InitWith(SubSeq(SeedNotes, 1, 1))

NextQuota ==
  \/ OpenDialog
  \/ CloseDialog
  \/ \E t \in TitleInputs : SetTitle(t)
  \/ \E c \in ContentInputs : SetContent(c)
  \/ DraftCreate(now)
  \/ DraftUpdate
  \/ DraftSkip
  \/ SavePromote
  \/ SaveCreate(now)
  \/ SaveCancel
  \/ \E id \in Ids : DeleteCard(id)
  \/ RefetchLand
  \/ DraftEffectThrows
  \/ CloseCleanupThrows
  \/ SavePromoteThrows
  \/ SaveCreateThrows
  \/ \E id \in Ids : DeleteThrows(id)

SpecQuota == InitQuota /\ [][NextQuota]_vars

\* filter menu, search box and drag reorder over stored notes that differ
\* in color, tags and the case of their texts
FilterSeeds ==
  << MakeNote(1, 0, 0, [ EmptyNote EXCEPT !.title = << "A", "b" >>,
                                          !.tags = << << "t" >> >> ]),
     MakeNote(2, 0, 0, [ EmptyNote EXCEPT !.title = << "b" >>,
                                          !.content = << "c" >>,
                                          !.color = COLORS[2] ]),
     MakeNote(3, 0, 0, [ EmptyNote EXCEPT !.title = << "c" >>,
                                          !.tags = << << "T" >>, << "a" >> >> ]) >>

\* the stored collections: the seeds in the order of creation, some left out
FilterInputs ==
  { [ k \in 1..Len(q) |-> FilterSeeds[q[k]] ] :
      q \in { r \in UNION { [ 1..n -> 1..Len(FilterSeeds) ] :
                              n \in 0..Len(FilterSeeds) } :
                \A i, j \in DOMAIN r : i < j => r[i] < r[j] } }

QueryInputs == { <<>>, << "a" >>, << "B" >>, << "t" >> }

InitFilter == \E coll \in FilterInputs : InitOver(1..Len(FilterSeeds), coll)

NextFilter ==
  \/ \E c \in ColorInputs : handleColorToggle(c)
  \/ \E t \in { << "t" >>, << "T" >>, << "a" >> } : handleTagToggle(t)
  \/ \E q \in QueryInputs : SetSearchQuery(q)
  \/ \E f \in 0..(Len(FilterSeeds) - 1), t \in 0..(Len(FilterSeeds) - 1) :
       HoverMove(f, t)

SpecFilter == InitFilter /\ [][NextFilter]_vars

\* bursts of edits in the creation dialog and in the card editor, over one
\* stored note: typing, the timers, closing, selecting and deselecting
BurstTitles == { <<>>, << "b" >> }

InitDebounce == InitWith(SubSeq(SeedNotes, 1, 1))

NextDebounce ==
  \/ OpenDialog
  \/ CloseDialog
  \/ \E t \in BurstTitles : SetTitle(t)
  \/ DraftCreate(now)
  \/ DraftUpdate
  \/ DraftSkip
  \/ \E id \in Ids : handleClick(id)
  \/ Deselect
  \/ \E t \in BurstTitles : SetCardTitle(t)
  \/ \E id \in Ids : CardDebounceFire(id)
  \/ RefetchLand

SpecDebounce == InitDebounce /\ [][NextDebounce]_vars

\* tags in the creation dialog and in the card editor, over one stored note
\* that has a tag; the texts typed differ in surrounding blanks, and the
\* title of the dialog is left empty, so the dialog stores nothing
TagTexts == { << "t" >>, << " ", "t" >>, << "u" >> }

TagNames == { Trim(t) : t \in TagTexts }

InitTags ==
  InitWith(<< MakeNote(1, 0, 0, [ EmptyNote EXCEPT !.title = << "a" >>,
                                                   !.tags = << << "t" >> >> ]) >>)

NextTags ==
  \/ OpenDialog
  \/ CloseDialog
  \/ \E t \in TagTexts : SetNewTag(t)
  \/ handleAddTag
  \/ \E t \in TagNames : handleRemoveTag(t)
  \/ DraftSkip
  \/ \E id \in Ids : handleClick(id)
  \/ Deselect
  \/ \E t \in TagTexts : SetCardNewTag(t)
  \/ NoteCard_handleAddTag
  \/ \E t \in TagNames : NoteCard_handleRemoveTag(t)
  \/ \E id \in Ids : CardDebounceFire(id)
  \/ RefetchLand

SpecTags == InitTags /\ [][NextTags]_vars

\* card editor over one stored note, with a user who selects, types and
\* deselects until the clock first ticks and then leaves the application
\* alone; every pending timer fires and every invalidated query is refetched
UserActive == now = 0

InitSettle == InitWith(SubSeq(SeedNotes, 1, 1))

NextSettle ==
  \/ UserActive /\ \E id \in Ids : handleClick(id)
  \/ UserActive /\ Deselect
  \/ UserActive /\ \E t \in CardTitleInputs : SetCardTitle(t)
  \/ \E id \in Ids : CardDebounceFire(id)
  \/ RefetchLand
  \/ Tick

SpecSettle ==
  /\ InitSettle /\ [][NextSettle]_vars
  /\ WF_vars(RefetchLand)
  /\ \A id \in Ids : WF_vars(CardDebounceFire(id))

\* ================================================================== claims
\* { title, content, color, tags, items } of a stored note
FieldsOf(n) ==
  [ title |-> n.title, content |-> n.content, color |-> n.color,
    tags |-> n.tags, items |-> n.items ]

\* C1: when the dialog is closed or cancelled without a save while a draft
\* id exists, the persisted collection holds no note with that id after the
\* close and the draft id is cleared.
C1_CloseDiscardsDraft ==
  [][ ((CloseDialog \/ SaveCancel) /\ draftId # Null)
        => (~HasNote(storage', draftId) /\ draftId' = Null) ]_vars

C1_Witness ==
  /\ ~isModalOpen
  /\ draftId = Null
  /\ \E id \in discarded : HasNote(notes, id) /\ ~HasNote(storage, id)

\* C2: a draft removed by the close cleanup is in the persisted collection
\* in no later state.
C2_DiscardedStaysAbsent ==
  \A id \in discarded : ~HasNote(storage, id)

\* C3: after each operation that writes the collection, the persisted
\* collection equals the in-memory collection.
C3_NoDrift ==
  [][ storage' # storage => notes' = storage' ]_vars

\* C4: an explicit save with a non-empty title and a draft id mints no id:
\* the collection keeps its length, the note with the draft id holds the
\* form values and a refreshed updatedAt, the dialog is closed, the draft id
\* is cleared and the note is not deleted by the close cleanup.
C4_SavePromotesDraft ==
  [][ SavePromote =>
        /\ Len(storage') = Len(storage)
        /\ nextId' = nextId
        /\ HasNote(storage', draftId)
        /\ FieldsOf(NoteOf(storage', draftId)) = newNote
        /\ NoteOf(storage', draftId).updatedAt = now
        /\ ~isModalOpen'
        /\ draftId' = Null ]_vars

\* C5: no finalized (non-draft) note of the persisted collection has a
\* title that is empty after trimming.
C5_NoBlankFinalTitle ==
  \A i \in 1..Len(storage) :
    storage[i].id # draftId => Trim(storage[i].title) # <<>>

\* C6: the draft id is set only by the creation of a draft, in an open
\* dialog with a non-empty title and no draft id, the created note carries
\* the form values, and a note with the draft id is in the persisted
\* collection whenever the draft id is set.
C6_OneDraftPerSession ==
  /\ [](draftId # Null => HasNote(storage, draftId))
  /\ [][ (draftId' # draftId /\ draftId' # Null) =>
           /\ draftId = Null
           /\ isModalOpen
           /\ Trim(newNote.title) # <<>>
           /\ ~HasNote(storage, draftId')
           /\ HasNote(storage', draftId')
           /\ FieldsOf(NoteOf(storage', draftId')) = newNote ]_vars

\* C7: with a draft id and the dialog open, once the debounce timer is
\* quiet the persisted draft holds the latest form values. Stated for the
\* forms whose title is not empty, where the draft effect does write.
C7_QuietDraftIsSynced ==
  (isModalOpen /\ draftId # Null /\ ~newNoteTimer /\ Trim(newNote.title) # <<>>) =>
    /\ HasNote(storage, draftId)
    /\ FieldsOf(NoteOf(storage, draftId)) = newNote

\* C8: while the title is empty in a session with a draft, no step that
\* leaves the dialog open removes the draft row or the draft id, and the
\* step that closes the dialog removes the row and clears the id.
C8_BlankTitleDraftKeptUntilClose ==
  [][ (isModalOpen /\ draftId # Null /\ Trim(newNote.title) = <<>>) =>
        IF isModalOpen'
        THEN /\ draftId' = draftId
             /\ HasNote(storage, draftId) => HasNote(storage', draftId)
        ELSE /\ draftId' = Null
             /\ ~HasNote(storage', draftId) ]_vars

C8_Witness ==
  /\ isModalOpen
  /\ draftId # Null
  /\ newNote.title = <<>>
  /\ ~newNoteTimer
  /\ HasNote(storage, draftId)
  /\ Trim(NoteOf(storage, draftId).title) # <<>>

\* C9: in a session without a draft, a step before and after which the
\* title is empty after trimming writes nothing and creates no draft.
C9_BlankSessionWritesNothing ==
  [][ ( /\ isModalOpen
        /\ draftId = Null
        /\ Trim(newNote.title) = <<>>
        /\ Trim(newNote'.title) = <<>> )
        => (storage' = storage /\ draftId' = Null /\ nextId' = nextId) ]_vars

C9_Witness ==
  /\ isModalOpen
  /\ draftId = Null
  /\ ~newNoteTimer
  /\ newNote.title = <<" ">>
  /\ newNote.content # <<>>
  /\ Len(storage) > 0

\* C10: every write is computed from the collection of the last committed
\* write, so a write removes a persisted note only when it is the delete of
\* that note or the cleanup of that draft.
C10_NoCommittedNoteLost ==
  [][ \A id \in Ids :
        (HasNote(storage, id) /\ ~HasNote(storage', id)) =>
          \/ DeleteCard(id)
          \/ (CloseDialog \/ SaveCancel) /\ draftId = id ]_vars

\* indices of reorder that lie in [0, length) of the in-memory collection
ValidIndex(i) == 0 <= i /\ i < Len(notes)

\* how often x occurs in coll
Occurrences(coll, x) == Cardinality({ k \in 1..Len(coll) : coll[k] = x })

\* C11: for valid indices reorder(fromIndex, toIndex) takes the element at
\* fromIndex out and puts it at toIndex, the elements in between move by one
\* place and the others stay; the result is a permutation of the input and
\* is what is persisted; [1, 2, 3] with reorder(0, 2) gives [2, 3, 1].
C11_ReorderShiftsBetween ==
  /\ [](Splice(<< SeedNote(1), SeedNote(2), SeedNote(3) >>, 0, 2)
          = << SeedNote(2), SeedNote(3), SeedNote(1) >>)
  /\ [][ \A f \in MoveIndices, t \in MoveIndices :
           (moveNote(f, t) /\ ValidIndex(f) /\ ValidIndex(t)) =>
             /\ Len(notes') = Len(notes)
             /\ notes'[t + 1] = notes[f + 1]
             /\ \A k \in 1..Len(notes) :
                  /\ (k < f + 1 /\ k < t + 1) => notes'[k] = notes[k]
                  /\ (k > f + 1 /\ k > t + 1) => notes'[k] = notes[k]
                  /\ (f + 1 <= k /\ k < t + 1) => notes'[k] = notes[k + 1]
                  /\ (t + 1 < k /\ k <= f + 1) => notes'[k] = notes[k - 1]
             /\ \A k \in 1..Len(notes) :
                  Occurrences(notes', notes[k]) = Occurrences(notes, notes[k])
             /\ storage' = Json(notes') ]_vars

C11_Witness ==
  /\ notes = << SeedNote(2), SeedNote(3), SeedNote(1) >>
  /\ storage = notes

\* C12: reorder with an index outside [0, length) changes neither the
\* in-memory nor the persisted collection.
C12_OutOfRangeRejected ==
  [][ \A f \in MoveIndices, t \in MoveIndices :
        (moveNote(f, t) /\ ~(ValidIndex(f) /\ ValidIndex(t))) =>
          (notes' = notes /\ storage' = storage) ]_vars

\* C13: for valid indices i # j, reorder(j, i) applied to the result of
\* reorder(i, j) gives back the collection reorder(i, j) started from.
C13_ReorderRoundTrip ==
  [][ \A i \in MoveIndices, j \in MoveIndices :
        (moveNote(i, j) /\ ValidIndex(i) /\ ValidIndex(j) /\ i # j) =>
          (Splice(notes', j, i) = notes /\ Json(Splice(notes', j, i)) = storage)
    ]_vars

C13_Witness ==
  /\ notes = << SeedNote(3), SeedNote(1), SeedNote(2) >>
  /\ storage = notes
  /\ Splice(Splice(notes, 0, 2), 2, 0) = notes

\* C14: a create step mints a fresh id, stamps createdAt equal to updatedAt,
\* appends the note to the collection it was computed from and persists the
\* result; the note holds the form values, and from a form in which only
\* title and content were set it has the first palette color, no tags and
\* no items.
C14_CreateAppendsFresh ==
  [][ nextId' # nextId =>
        LET created == storage'[Len(storage')]
        IN  /\ storage' = Append(notes, created)
            /\ created.id = nextId
            /\ ~HasNote(notes, created.id) /\ ~HasNote(storage, created.id)
            /\ created.createdAt = created.updatedAt
            /\ FieldsOf(created) = newNote
            /\ created.color = COLORS[1]
            /\ created.tags = <<>>
            /\ created.items = <<>> ]_vars

\* no two places of the collection hold the same id
DistinctIds(coll) ==
  \A i, j \in 1..Len(coll) : i # j => coll[i].id # coll[j].id

\* C15: in every reachable state the notes of the collection, persisted and
\* in memory, have pairwise distinct ids.
C15_IdsPairwiseDistinct == DistinctIds(storage) /\ DistinctIds(notes)

C15_Witness ==
  /\ isModalOpen
  /\ draftId # Null
  /\ Len(storage) = 2
  /\ HasNote(storage, draftId)
  /\ Len(notes) = 2

\* the card of `id` calls onUpdate in this step: the auto-save effect runs
\* with `deb` as its debounced note and finds it different from the note
UpdateIssued(id, sel, deb) ==
  sel = id /\ HasNote(notes, id) /\ deb # NoteOf(notes, id)

C17_MissingIdIsNoOp ==
  [][ \A id \in Ids :
        ( /\ ~HasNote(notes, id) \/ ~HasNote(storage, id)
          /\ \/ DeleteCard(id)
             \/ (DraftUpdate \/ SavePromote) /\ draftId = id ) =>
          (storage' = storage /\ notes' = notes) ]_vars

\* C18: as long as a note is in the persisted collection its updatedAt does
\* not decrease, a change of the note sets updatedAt to the current time,
\* and createdAt keeps its value.
C18_UpdatedAtMonotone ==
  [][ \A id \in Ids :
        (HasNote(storage, id) /\ HasNote(storage', id)) =>
          /\ NoteOf(storage', id).updatedAt >= NoteOf(storage, id).updatedAt
          /\ NoteOf(storage', id).createdAt = NoteOf(storage, id).createdAt
          /\ NoteOf(storage', id) # NoteOf(storage, id) =>
               NoteOf(storage', id).updatedAt = now ]_vars

\* C19: the ids of the persisted collection change only by the creation of
\* a note, which adds the new id, and by a delete or the discard of a draft,
\* which removes the id it names.
C19_IdsChangeByCreateAndDelete ==
  [][ NoteIds(storage') # NoteIds(storage) =>
        \/ /\ nextId' # nextId
           /\ NoteIds(storage') = NoteIds(storage) \cup { nextId }
        \/ \E id \in Ids :
             /\ DeleteCard(id) \/ ((CloseDialog \/ SaveCancel) /\ draftId = id)
             /\ NoteIds(storage') = NoteIds(storage) \ { id } ]_vars

\* C20: whatever the stored item is among absent, empty, not JSON and JSON
\* that is not an array of notes, the load gives the empty collection and
\* the application keeps running.
C20_BadItemLoadsEmpty ==
  ~refetchPending => (notes = <<>> /\ ~renderThrew)

\* C21: a write of localStorage that throws leaves the persisted collection
\* as the last successful write left it and the application running.
C21_WriteFailureIsRecovered ==
  [][ ( \/ DraftEffectThrows
        \/ CloseCleanupThrows
        \/ SavePromoteThrows
        \/ SaveCreateThrows
        \/ \E id \in Ids : DeleteThrows(id) ) =>
        (storage' = storage /\ ~renderThrew') ]_vars

Range(seq) == { seq[k] : k \in 1..Len(seq) }

\* part occurs in str at some offset when letter case is ignored
OccursIgnoringCase(str, part) ==
  \E a \in 1..(Len(str) + 1) :
    \A k \in 1..Len(part) :
      /\ a + k - 1 <= Len(str)
      /\ ToLowerChar(str[a + k - 1]) = ToLowerChar(part[k])

MatchesFilter(note) ==
  /\ selectedColors = <<>> \/ note.color \in Range(selectedColors)
  /\ selectedTags = <<>> \/ Range(note.tags) \cap Range(selectedTags) # {}
  /\ \/ searchQuery = <<>>
     \/ \E text \in { note.title, note.content } \cup Range(note.tags) :
          OccursIgnoringCase(text, searchQuery)

\* C22: a note is in the filtered result if and only if (no color is
\* selected or its color is selected) and (no tag is selected or it has a
\* selected tag) and (the search is empty or it is a case-insensitive
\* substring of the title, the content or some tag)
C22_FilterMatchesCriteria ==
  \A k \in 1..Len(notes) :
    (notes[k] \in Range(filteredNotes)) <=> MatchesFilter(notes[k])

\* all three criteria are set, the search differs in case from the title it
\* finds, and one of three notes passes
C22_Witness ==
  /\ selectedColors # <<>> /\ selectedTags # <<>> /\ searchQuery = << "B" >>
  /\ Len(notes) = 3
  /\ Len(filteredNotes) = 1 /\ filteredNotes[1].title = << "A", "b" >>

PositionIn(coll, note) == CHOOSE k \in 1..Len(coll) : coll[k] = note

\* C23: the filter result is a subsequence of the input in the input's
\* order, and with no color, no tag and an empty search it is the input
C23_FilterPreservesOrder ==
  /\ \A i \in 1..Len(filteredNotes) : filteredNotes[i] \in Range(notes)
  /\ \A i, j \in 1..Len(filteredNotes) :
       i < j => PositionIn(notes, filteredNotes[i])
                  < PositionIn(notes, filteredNotes[j])
  /\ (selectedColors = <<>> /\ selectedTags = <<>> /\ searchQuery = <<>>)
       => filteredNotes = notes

\* a search keeps two of three notes, the middle one is left out
C23_Witness ==
  /\ searchQuery = << "a" >>
  /\ Len(notes) = 3 /\ Len(filteredNotes) = 2
  /\ filteredNotes[1] = notes[1] /\ filteredNotes[2] = notes[3]

\* C24: filtering the filtered list again with the same criteria gives the
\* filtered list
C24_FilterIdempotent ==
  FilterNotes(filteredNotes, selectedColors, selectedTags, searchQuery)
    = filteredNotes

\* a color and a tag are selected and the list is cut down, not emptied
C24_Witness ==
  /\ selectedColors # <<>> /\ selectedTags # <<>>
  /\ Len(filteredNotes) > 0 /\ Len(filteredNotes) < Len(notes)

\* the cards on screen are those of filteredNotes, each with its note
CardsShowFilter ==
  \A id \in DOMAIN editedNote :
    IF HasNote(filteredNotes, id)
    THEN prevNoteRef[id] = NoteOf(filteredNotes, id)
    ELSE editedNote[id] = NoCard

\* C25: every write of the collection either replaces the cached collection
\* by what was written or invalidates the query, and after an invalidation
\* the collection handed to LayoutGrid eventually equals the stored one and
\* the cards shown are the filter of it
C25_CacheFollowsStorage ==
  /\ [][ storage' # storage => (refetchPending' \/ notes' = storage') ]_vars
  /\ refetchPending ~>
       (~refetchPending /\ notes = storage /\ CardsShowFilter)

\* a note was saved, the refetch landed, and a search hides its card
C25_Witness ==
  /\ ~refetchPending /\ notes = storage /\ Len(notes) = 1
  /\ ~isModalOpen /\ draftId = Null
  /\ searchQuery # <<>> /\ filteredNotes = <<>> /\ CardsShowFilter

NoDuplicates(tags) ==
  \A i, j \in 1..Len(tags) : i # j => tags[i] # tags[j]

TagsUnique ==
  /\ NoDuplicates(newNote.tags)
  /\ \A k \in 1..Len(storage) : NoDuplicates(storage[k].tags)
  /\ \A k \in 1..Len(notes) : NoDuplicates(notes[k].tags)
  /\ \A id \in DOMAIN editedNote :
       editedNote[id] # NoCard =>
         NoDuplicates(editedNote[id].tags) /\ NoDuplicates(debouncedNote[id].tags)

\* tags grow by one tag that was absent, put after the tags present
AppendsAbsent(before, after) ==
  /\ Len(after) = Len(before) + 1
  /\ SubSeq(after, 1, Len(before)) = before
  /\ ~Includes(before, after[Len(after)])

\* C26: no tag occurs twice in the tags of a note, in the dialog form, in a
\* card's copy, in the cache or in storage; an add-tag that changes the tags
\* appends one tag that was absent, so adding a present tag changes nothing
C26_TagsHaveNoDuplicates ==
  /\ []TagsUnique
  /\ [][ /\ handleAddTag => AppendsAbsent(newNote.tags, newNote'.tags)
         /\ NoteCard_handleAddTag =>
              AppendsAbsent(editedNote[selected].tags,
                            editedNote'[selected].tags) ]_vars

\* the card stored two tags in the order they were added, and the text in
\* its tag input is a stored tag with a blank in front
C26_Witness ==
  /\ selected # Null
  /\ editedNote[selected].tags = << << "t" >>, << "u" >> >>
  /\ HasNote(storage, selected)
  /\ NoteOf(storage, selected).tags = editedNote[selected].tags
  /\ cardNewTag[selected] = << " ", "t" >>
  /\ ~ENABLED NoteCard_handleAddTag

\* C27: once a note is deselected, the edits of that session are not
\* written: a debounce timer that fires while no note is selected writes
\* nothing, and selecting a note (no edit of the new session exists yet)
\* writes nothing
C27_DeselectCancelsAutoSave ==
  [][ ( \/ \E id \in Ids : handleClick(id)
        \/ selected = Null /\ \E id \in Ids : CardDebounceFire(id) )
      => storage' = storage ]_vars

\* C28: an edit in the dialog or in the card editor restarts the debounce
\* timer and writes nothing; the draft effect and the auto-save write when
\* the timer fires, and what they write are the values held at that moment
C28_DebounceIsTrailingEdge ==
  [][ /\ (isModalOpen /\ isModalOpen' /\ newNote' # newNote)
           => (newNoteTimer' /\ storage' = storage)
      /\ (\E t \in BurstTitles : SetCardTitle(t))
           => (cardTimer'[selected] /\ storage' = storage)
      /\ (DraftCreate(now) \/ DraftUpdate)
           => /\ newNoteTimer /\ ~newNoteTimer'
              /\ \A k \in 1..Len(storage') :
                   storage'[k].id = draftId' => FieldsOf(storage'[k]) = newNote
      /\ \A id \in Ids :
           CardDebounceFire(id)
             => /\ debouncedNote'[id] = editedNote[id]
                /\ storage' # storage
                     => /\ HasNote(storage', id)
                        /\ FieldsOf(NoteOf(storage', id))
                             = FieldsOf(editedNote[id]) ]_vars

\* the card's timer wrote the title typed last, the dialog's timer wrote a
\* draft, and a further edit of the dialog waits for its timer, unwritten
C28_Witness ==
  /\ NoteOf(storage, 1).title = << "b" >>
  /\ draftId # Null /\ HasNote(storage, draftId)
  /\ NoteOf(storage, draftId).title = << "b" >>
  /\ newNoteTimer /\ newNote.title = <<>>

\* C29: when the card shown at position f is dragged onto the card shown at
\* position t, the note of the dragged card ends in the stored collection
\* at the position that the note of the target card had
C29_DragMovesTheDraggedNote ==
  [][ \A f, t \in 0..(Len(FilterSeeds) - 1) :
        HoverMove(f, t) =>
          PositionIn(storage', filteredNotes[f + 1])
            = PositionIn(notes, filteredNotes[t + 1]) ]_vars

\* C30: a save with a non-empty title leaves exactly one note of the session
\* in storage, with the values of the form: after a draft was created it is
\* the draft and the collection keeps its length; before any draft exists it
\* is one appended note; and the debounce timer that fires after the dialog
\* closed writes nothing
C30_SaveAddsExactlyOneNote ==
  [][ /\ SavePromote =>
           /\ Len(storage') = Len(storage)
           /\ Cardinality({ k \in 1..Len(storage') :
                              storage'[k].id = draftId }) = 1
           /\ FieldsOf(NoteOf(storage', draftId)) = newNote
      /\ SaveCreate(now) =>
           /\ Len(storage') = Len(storage) + 1
           /\ Cardinality({ k \in 1..Len(storage') :
                              storage'[k].id = nextId }) = 1
           /\ FieldsOf(NoteOf(storage', nextId)) = newNote
      /\ (~isModalOpen /\ newNoteTimer /\ ~newNoteTimer')
           => storage' = storage ]_vars

\* nothing is left to happen to the card of id
CardQuiet(id) == ~cardTimer[id] /\ ~refetchPending

\* C31: once the user has stopped, the value the selected card holds gets
\* stored and the card comes to rest with it; a write made from then on
\* changes the stored fields of the note, so the refreshed updatedAt and the
\* re-synchronised copy cause no second write
C31_AutoSaveSettles ==
  /\ \A t \in CardTitleInputs :
       (~UserActive /\ selected # Null /\ HasNote(storage, selected)
          /\ editedNote[selected] # NoCard /\ editedNote[selected].title = t)
         ~> (/\ selected # Null
             /\ CardQuiet(selected)
             /\ NoteOf(storage, selected).title = t
             /\ editedNote[selected] = NoteOf(storage, selected))
  /\ [][ (~UserActive /\ storage' # storage) =>
           \E id \in Ids :
             /\ HasNote(storage, id) /\ HasNote(storage', id)
             /\ FieldsOf(NoteOf(storage', id)) # FieldsOf(NoteOf(storage, id))
       ]_vars

\* C32: the draft id is set only while the dialog is open; a closed dialog
\* holds the empty form, so every session opens with empty title and
\* content, the first palette color, no tags, no items and no draft id; and
\* the draft id a session gets is a fresh one, never that of an earlier
\* session
C32_SessionsStartEmpty ==
  /\ [](draftId # Null => isModalOpen)
  /\ [](~isModalOpen => (newNote = EmptyNote /\ newTag = <<>> /\ newItem = <<>>))
  /\ [][ OpenDialog => (newNote' = EmptyNote /\ draftId' = Null) ]_vars
  /\ [][ (draftId' # draftId /\ draftId' # Null) =>
           /\ draftId = Null
           /\ draftId' \notin discarded
           /\ ~HasNote(storage, draftId') /\ ~HasNote(notes, draftId') ]_vars

\* a session is open with the empty form and no draft id after one session
\* was closed with a draft and another was saved; the timer started by the
\* reset of the form is still pending
C32_Witness ==
  /\ isModalOpen /\ draftId = Null /\ newNote = EmptyNote
  /\ discarded # {}
  /\ \E k \in 1..Len(storage) : storage[k].id \notin discarded
  /\ newNoteTimer

====
